---- MODULE Spec2Model ----
(***************************************************************************)
(* react-usedatum: UseDatum(initialValue, onChange, opts) returns          *)
(* [useDatum, setDatum, getDatum] over one closure holding `state` and the *)
(* `callbacks` registry (src/src/UseDatum.tsx).                            *)
(*                                                                         *)
(* Values are primitives or references into a heap of composites, so that  *)
(* identity (===) and structural equality (fast-deep-equal) differ and an  *)
(* object can be mutated in place.  setDatum is synchronous but re-entrant:*)
(* its callbacks (onChange, the forceRender of every registered hook) can  *)
(* call back into the container, so a running setDatum is a frame on       *)
(* `stack` and its callbacks are the steps taken while it is on top.       *)
(***************************************************************************)
EXTENDS Integers, Sequences, FiniteSets, TLC

\* ---- bounds of the model
MaxPrim == 2        \* primitives are 0..MaxPrim
NumRefs == 2        \* heap references are 1..NumRefs
MaxSubs == 2        \* hook instances ever created (Spec)
FanOutSubs == 3     \* hook instances ever created (SpecFanOut)
PolicySubs == 1     \* hook instances ever created (SpecPolicy)
MaxChanges == 2     \* cap on state.changeCount
MaxDepth == 2       \* nesting of re-entrant setDatum calls

\* ---- values
Prims == 0..MaxPrim
Refs == 1..NumRefs
Prim(n) == [kind |-> "prim", v |-> n]
Obj(r) == [kind |-> "obj", v |-> r]
Fn(f) == [kind |-> "fn", v |-> f]
Values == {Prim(n) : n \in Prims} \cup {Obj(r) : r \in Refs}
\* the updater of README "Setting a new value based on the prior value"
Inc == Fn("inc")
Updaters == {Inc}

VARIABLES
  state,          \* the closure's state record: value, subscriberCount, changeCount, shallow
  callbacks,      \* the registry: id -> hook instance whose forceRender is stored
  hasOnChange,    \* whether UseDatum was given an onChange
  heap,           \* contents of the composites the values refer to
  subs,           \* the hook instances (one per mounted component using useDatum)
  stack,          \* running setDatum calls, innermost last
  ev,             \* the operation that acted last
  onChangeCalls,  \* number of onChange invocations so far
  incCalls,       \* number of setDatum(prior => prior + 1) calls while they are the only writes
  trace           \* what the outermost running (or last) setDatum call and the calls
                  \* nested in it did, when it is recorded

vars == <<state, callbacks, hasOnChange, heap, subs, stack, ev,
          onChangeCalls, incCalls, trace>>

\* ---- pure helpers

\* String(n) of a non-negative integer: its decimal digits
RECURSIVE String(_)
String(n) == IF n < 10 THEN <<n>> ELSE Append(String(n \div 10), n % 10)

\* the array index a canonical numeric key denotes (for-in visits such keys ascending)
RECURSIVE ToIndex(_)
ToIndex(key) ==
  IF Len(key) = 1 THEN key[1]
  ELSE 10 * ToIndex(SubSeq(key, 1, Len(key) - 1)) + key[Len(key)]

isObject(val) == val.kind = "obj"

IsFunction(x) == x.kind = "fn"

\* fast-deep-equal on the modelled values: identical, or both composite with the
\* same length and pairwise deep-equal elements
RECURSIVE deepequal(_, _, _)
deepequal(h, a, b) ==
  IF a = b THEN TRUE
  ELSE IF isObject(a) /\ isObject(b)
       THEN /\ Len(h[a.v]) = Len(h[b.v])
            /\ \A i \in 1..Len(h[a.v]) : deepequal(h, h[a.v][i], h[b.v][i])
       ELSE FALSE

\* prior => prior + 1
Apply(f, prior) == Prim(prior.v + 1)

\* bug: the getter answers with the value the running call replaced
getDatumValue_Stale == IF stack # << >> THEN stack[Len(stack)].prior ELSE state.value

getDatumValue == state.value

\* bug: a primitive is never compared, only composites are
Changed_PrimitivesAlways(newValue, force) ==
  IF force \/ ~isObject(newValue) THEN TRUE
  ELSE IF state.shallow
       THEN newValue # state.value
       ELSE ~deepequal(heap, newValue, state.value)

\* bug: the deep comparison is left out, every value is compared by identity
Changed_ByIdentity(newValue, force) ==
  IF force THEN TRUE ELSE newValue # state.value

\* bug: the shallow option is never consulted
Changed_DeepAlways(newValue, force) ==
  IF force THEN TRUE
  ELSE IF ~isObject(newValue)
       THEN newValue # state.value
       ELSE ~deepequal(heap, newValue, state.value)

\* bug: the force argument is dropped
Changed_ForceIgnored(newValue, force) ==
  IF state.shallow \/ ~isObject(newValue)
  THEN newValue # state.value
  ELSE ~deepequal(heap, newValue, state.value)

\* lines 91-99: the change-detection policy
Changed(newValue, force) ==
  IF force THEN TRUE
  ELSE IF state.shallow \/ ~isObject(newValue)
       THEN newValue # state.value
       ELSE ~deepequal(heap, newValue, state.value)

\* keys of the registry in for-in order (integer-like keys ascending)
RECURSIVE SortKeys(_)
SortKeys(S) ==
  IF S = {} THEN <<>>
  ELSE LET k == CHOOSE x \in S : \A y \in S : ToIndex(x) <= ToIndex(y)
       IN <<k>> \o SortKeys(S \ {k})

Range(s) == {s[i] : i \in 1..Len(s)}

EmptyMap == [k \in {} |-> 0]
NoEv == [op |-> "none"]
NoSeen == [called |-> FALSE]
\* the calls are not recorded
Off == <<[op |-> "off"]>>
\* the record of the calls, with event e added when they are recorded
Record(e) == IF trace = Off THEN Off ELSE Append(trace, e)

Top == stack[Len(stack)]

\* Single-threaded: while a setDatum call is running, anything else runs inside
\* one of its callbacks (onChange, or a forceRender the pass has invoked).
InCallback ==
  IF stack = << >> THEN TRUE
  ELSE IF Top.pc = "onChange" THEN TRUE
       ELSE Top.notified # << >>

\* every running pass sees that the registry was edited under it
MarkRegistryEdit(st) == [d \in DOMAIN st |-> [st[d] EXCEPT !.regChanged = TRUE]]

ActiveSubs == {i \in DOMAIN subs : subs[i].status = "active"}

\* bug: the reducer returns its state unchanged (s => s), so the host framework
\* bails out and no re-render is requested
forceRender_Lost(ss, i) == ss

\* dispatch of the hook's reducer (s => s + 1): a re-render is requested
forceRender(ss, i) ==
  [ss EXCEPT ![i].pending = (ss[i].status \in {"created", "active"})]

\* UseDatum(initialValue, onChange, opts) (lines 47-61)
UseDatum(initialValues, modes) ==
  /\ \E v \in initialValues, sh \in modes :
       state = [value |-> v, subscriberCount |-> 0, changeCount |-> 0, shallow |-> sh]
  /\ callbacks = EmptyMap
  /\ hasOnChange \in BOOLEAN
  /\ heap = [r \in Refs |-> <<Prim(0)>>]
  /\ subs = << >>
  /\ stack = << >>
  /\ ev = NoEv
  /\ onChangeCalls = 0
  /\ incCalls = IF state.value = Prim(0) THEN 0 ELSE -1

\* ---- getDatum (line 75)
GetDatum ==
  /\ InCallback
  /\ ev' = [op |-> "get", result |-> getDatumValue]
  /\ UNCHANGED <<state, callbacks, hasOnChange, heap, subs, stack,
                 onChangeCalls, incCalls, trace>>

\* ---- setDatum (lines 82-118), up to its first callback

\* bug: the updater is given the value of the first render of the caller, not
\* the stored one
Resolve_StalePrior(newValueOrFunction) ==
  IF IsFunction(newValueOrFunction)
  THEN Apply(newValueOrFunction, Prim(0))
  ELSE newValueOrFunction

\* lines 86-89: an updater is called with the stored value
Resolve(newValueOrFunction) ==
  IF IsFunction(newValueOrFunction)
  THEN Apply(newValueOrFunction, state.value)
  ELSE newValueOrFunction

\* bug: onChange is invoked before the state is updated
NewFrame_OnChangeFirst(newValue, prior, force, st) ==
  [pc |-> IF hasOnChange THEN "onChange" ELSE "notify",
   newValue |-> newValue,
   prior |-> prior,
   force |-> force,
   keys |-> IF hasOnChange THEN << >> ELSE SortKeys(DOMAIN callbacks),
   notified |-> << >>,
   activeAtCall |-> ActiveSubs,
   regChanged |-> FALSE,
   seen |-> IF hasOnChange
            THEN [called |-> TRUE, current |-> newValue, prior |-> prior,
                  value |-> prior, changeCount |-> st.changeCount - 1]
            ELSE NoSeen]

\* the call as it stands when onChange is invoked (line 112), or when the for-in
\* starts if there is no onChange; st is the state record at that point
NewFrame(newValue, prior, force, st) ==
  [pc |-> IF hasOnChange THEN "onChange" ELSE "notify",
   newValue |-> newValue,
   prior |-> prior,
   force |-> force,
   keys |-> IF hasOnChange THEN << >> ELSE SortKeys(DOMAIN callbacks),
   notified |-> << >>,
   activeAtCall |-> ActiveSubs,
   regChanged |-> FALSE,
   seen |-> IF hasOnChange
            THEN [called |-> TRUE, current |-> newValue, prior |-> prior,
                  value |-> st.value, changeCount |-> st.changeCount]
            ELSE NoSeen]

\* bug: a call made while another is running does not count its change
SetDatumEffect_CountOutermost(newValue, force) ==
  LET changed == Changed(newValue, force)
      s1 == IF stack = << >> THEN [state EXCEPT !.changeCount = @ + 1] ELSE state
      prior == s1.value
      s2 == [s1 EXCEPT !.value = newValue]
  IN /\ changed => state.changeCount < MaxChanges /\ Len(stack) < MaxDepth
     /\ IF changed
        THEN /\ state' = s2
             /\ stack' = Append(stack, NewFrame(newValue, prior, force, s2))
             /\ onChangeCalls' = IF hasOnChange THEN onChangeCalls + 1 ELSE onChangeCalls
             /\ subs' = [i \in DOMAIN subs |->
                           IF subs[i].status = "created"
                           THEN [subs[i] EXCEPT !.missed = TRUE] ELSE subs[i]]
             /\ trace' = IF trace = Off THEN Off
                         ELSE Append(IF stack = << >> THEN << >> ELSE trace,
                                     [op |-> "change", depth |-> Len(stack) + 1,
                                      stored |-> state.value,
                                      before |-> state.changeCount,
                                      frame |-> NewFrame(newValue, prior, force, s2)])
        ELSE UNCHANGED <<state, stack, onChangeCalls, subs, trace>>
     /\ UNCHANGED <<callbacks, hasOnChange, heap>>

\* lines 91-113 for a resolved value
SetDatumEffect(newValue, force) ==
  LET changed == Changed(newValue, force)
      s1 == [state EXCEPT !.changeCount = @ + 1]
      prior == s1.value
      s2 == [s1 EXCEPT !.value = newValue]
  IN /\ changed => state.changeCount < MaxChanges /\ Len(stack) < MaxDepth
     /\ IF changed
        THEN /\ state' = s2
             /\ stack' = Append(stack, NewFrame(newValue, prior, force, s2))
             /\ onChangeCalls' = IF hasOnChange THEN onChangeCalls + 1 ELSE onChangeCalls
             /\ subs' = [i \in DOMAIN subs |->
                           IF subs[i].status = "created"
                           THEN [subs[i] EXCEPT !.missed = TRUE] ELSE subs[i]]
             /\ trace' = IF trace = Off THEN Off
                         ELSE Append(IF stack = << >> THEN << >> ELSE trace,
                                     [op |-> "change", depth |-> Len(stack) + 1,
                                      stored |-> state.value,
                                      before |-> state.changeCount,
                                      frame |-> NewFrame(newValue, prior, force, s2)])
        ELSE UNCHANGED <<state, stack, onChangeCalls, subs, trace>>
     /\ UNCHANGED <<callbacks, hasOnChange, heap>>

\* log: whether a call that changes nothing is recorded in ev
SetDatum(newValueOrFunction, force, log) ==
  /\ InCallback
  /\ IsFunction(newValueOrFunction) =>
       state.value.kind = "prim" /\ state.value.v < MaxPrim
  /\ SetDatumEffect(Resolve(newValueOrFunction), force)
  /\ ev' = IF log \/ force \/ Changed(Resolve(newValueOrFunction), force)
           THEN [op |-> "set", arg |-> newValueOrFunction, force |-> force,
                 changed |-> Changed(Resolve(newValueOrFunction), force)]
           ELSE NoEv
  /\ incCalls' = IF incCalls >= 0 /\ newValueOrFunction = Inc /\ ~force
                 THEN incCalls + 1 ELSE -1

\* onChange returns (line 113): the for-in over callbacks starts
OnChangeReturn ==
  /\ stack # << >>
  /\ Top.pc = "onChange"
  /\ stack' = [stack EXCEPT ![Len(stack)] =
                 [@ EXCEPT !.pc = "notify", !.keys = SortKeys(DOMAIN callbacks)]]
  /\ ev' = NoEv
  /\ UNCHANGED <<state, callbacks, hasOnChange, heap, subs,
                 onChangeCalls, incCalls, trace>>

\* bug: the loop body returns, so the pass ends after its first callback
Remaining_StopAfterFirst(f) ==
  IF f.notified # << >> THEN << >>
  ELSE SelectSeq(f.keys, LAMBDA k : k \in DOMAIN callbacks)

\* bug: a guard against re-entrancy skips the pass of a call made while
\* another call is running
Remaining_SkipNested(f) ==
  IF Len(stack) > 1 THEN << >>
  ELSE SelectSeq(f.keys, LAMBDA k : k \notin Range(f.notified) /\ k \in DOMAIN callbacks)

\* bug: the pass counts its way through Object.keys(callbacks) read afresh in
\* every iteration, so a deletion shifts the keys under the counter
Remaining_ByIndex(f) ==
  SubSeq(SortKeys(DOMAIN callbacks), Len(f.notified) + 1, Cardinality(DOMAIN callbacks))

\* keys the for-in has still to visit: a key deleted before it is reached is skipped
Remaining(f) ==
  SelectSeq(f.keys, LAMBDA k : k \notin Range(f.notified) /\ k \in DOMAIN callbacks)

\* keys added to the registry since the for-in started: visiting them is not guaranteed
Added(f) == (DOMAIN callbacks \ Range(f.keys)) \ Range(f.notified)

Invoke(key) ==
  LET i == callbacks[key]
  IN /\ stack' = [stack EXCEPT ![Len(stack)] =
                    [@ EXCEPT !.notified = Append(@, key)]]
     /\ subs' = forceRender(subs, i)
     /\ ev' = NoEv
     /\ trace' = Record([op |-> "notify", sub |-> i, depth |-> Len(stack),
                         value |-> getDatumValue])
     /\ UNCHANGED <<state, callbacks, hasOnChange, heap,
                    onChangeCalls, incCalls>>

\* bug: the pass walks a copy of the registry taken when it started
\* (Object.values(callbacks).forEach(cb => cb())), so a callback deleted since
\* is still invoked
NotifyNext_Snapshot ==
  /\ stack # << >>
  /\ Top.pc = "notify"
  /\ LET rest == SelectSeq(Top.keys, LAMBDA k : k \notin Range(Top.notified))
         key == Head(rest)
         i == CHOOSE j \in DOMAIN subs : subs[j].id = key
     IN /\ rest # << >>
        /\ stack' = [stack EXCEPT ![Len(stack)] =
                       [@ EXCEPT !.notified = Append(@, key)]]
        /\ subs' = forceRender(subs, i)
        /\ ev' = NoEv
        /\ UNCHANGED <<state, callbacks, hasOnChange, heap, onChangeCalls, incCalls, trace>>

\* one iteration of lines 114-116
NotifyNext ==
  /\ stack # << >>
  /\ Top.pc = "notify"
  /\ \/ /\ Remaining(Top) # << >>
        /\ Invoke(Head(Remaining(Top)))
     \/ \E key \in Added(Top) : Invoke(key)

\* the for-in is exhausted and setDatum returns (line 118)
SetDatumReturn ==
  /\ stack # << >>
  /\ Top.pc = "notify"
  /\ Remaining(Top) = << >>
  /\ stack' = SubSeq(stack, 1, Len(stack) - 1)
  /\ ev' = NoEv
  /\ UNCHANGED <<state, callbacks, hasOnChange, heap, subs, onChangeCalls, incCalls, trace>>

\* bug: the callbacks are called inside try/catch, so setDatum goes on after a
\* callback has thrown
Throw_Swallowed ==
  /\ stack # << >>
  /\ IF Top.pc = "onChange" THEN TRUE ELSE Top.notified # << >>
  /\ stack' = IF Top.pc = "onChange"
              THEN [stack EXCEPT ![Len(stack)] =
                      [@ EXCEPT !.pc = "notify", !.keys = SortKeys(DOMAIN callbacks)]]
              ELSE stack
  /\ ev' = [op |-> "throw"]
  /\ UNCHANGED <<state, callbacks, hasOnChange, heap, subs, onChangeCalls, incCalls, trace>>

\* bug: setDatum catches what its callbacks throw, puts the prior value and
\* count back and rethrows
Throw_Rollback ==
  /\ stack # << >>
  /\ IF Top.pc = "onChange" THEN TRUE ELSE Top.notified # << >>
  /\ stack' = SubSeq(stack, 1, Len(stack) - 1)
  /\ state' = [state EXCEPT !.value = Top.prior, !.changeCount = @ - 1]
  /\ ev' = [op |-> "throw"]
  /\ UNCHANGED <<callbacks, hasOnChange, heap, subs, onChangeCalls, incCalls, trace>>

\* the running callback throws: nothing is caught in lines 107-117, so the call ends
Throw ==
  /\ stack # << >>
  /\ IF Top.pc = "onChange" THEN TRUE ELSE Top.notified # << >>
  /\ stack' = SubSeq(stack, 1, Len(stack) - 1)
  /\ ev' = [op |-> "throw"]
  /\ UNCHANGED <<state, callbacks, hasOnChange, heap, subs, onChangeCalls, incCalls, trace>>

\* ---- a caller edits a composite in place (README "Forcing an update")
Mutate(r) ==
  /\ InCallback
  /\ heap' = [heap EXCEPT ![r] = <<Prim(1 - @[1].v)>>]
  /\ ev' = NoEv
  /\ UNCHANGED <<state, callbacks, hasOnChange, subs, stack, onChangeCalls, incCalls, trace>>

\* ---- useDatum (lines 123-167)

\* a hook instance that is gone keeps its identity only: nothing reads the rest
Gone(sub, status) ==
  [sub EXCEPT !.status = status, !.changeCount = 0, !.rendered = Prim(0),
              !.pending = FALSE, !.missed = FALSE]

\* bug: the identity is the number of registered callbacks, not a counter of its own
Render_IdFromRegistry(maxSubs) ==
  /\ InCallback
  /\ Len(subs) < maxSubs
  /\ subs' = Append(subs, [id |-> String(Cardinality(DOMAIN callbacks)),
                           changeCount |-> state.changeCount,
                           status |-> "created",
                           rendered |-> state.value,
                           pending |-> FALSE,
                           missed |-> FALSE])
  /\ state' = [state EXCEPT !.subscriberCount = @ + 1]
  /\ ev' = NoEv
  /\ UNCHANGED <<callbacks, hasOnChange, heap, stack, onChangeCalls, incCalls, trace>>

\* bug: the callback is stored by the render body instead of the effect
Render_Registers(maxSubs) ==
  /\ InCallback
  /\ Len(subs) < maxSubs
  /\ subs' = Append(subs, [id |-> String(state.subscriberCount),
                           changeCount |-> state.changeCount,
                           status |-> "created",
                           rendered |-> state.value,
                           pending |-> FALSE,
                           missed |-> FALSE])
  /\ callbacks' = [k \in DOMAIN callbacks \cup {String(state.subscriberCount)} |->
                     IF k = String(state.subscriberCount)
                     THEN Len(subs) + 1 ELSE callbacks[k]]
  /\ state' = [state EXCEPT !.subscriberCount = @ + 1]
  /\ ev' = NoEv
  /\ UNCHANGED <<hasOnChange, heap, stack, onChangeCalls, incCalls, trace>>

\* the render body, first render of a component: useRef keeps the context built here
Render(maxSubs) ==
  /\ InCallback
  /\ Len(subs) < maxSubs
  /\ subs' = Append(subs, [id |-> String(state.subscriberCount),
                           changeCount |-> state.changeCount,
                           status |-> "created",
                           rendered |-> state.value,
                           pending |-> FALSE,
                           missed |-> FALSE])
  /\ state' = [state EXCEPT !.subscriberCount = @ + 1]
  /\ ev' = NoEv
  /\ UNCHANGED <<callbacks, hasOnChange, heap, stack, onChangeCalls, incCalls, trace>>

\* bug: the context is a plain object built by every render, so a re-render
\* mints another identity
Rerender_NewId(i, maxSubs) ==
  /\ InCallback
  /\ subs[i].status = "active"
  /\ state.subscriberCount < maxSubs + 1
  /\ subs' = [subs EXCEPT ![i].rendered = state.value, ![i].pending = FALSE,
                          ![i].id = String(state.subscriberCount)]
  /\ state' = [state EXCEPT !.subscriberCount = @ + 1]
  /\ ev' = NoEv
  /\ UNCHANGED <<callbacks, hasOnChange, heap, stack, onChangeCalls, incCalls, trace>>

\* the render body, later render: the useRef argument is evaluated (and counted)
\* again but the stored context is kept
Rerender(i, maxSubs) ==
  /\ InCallback
  /\ subs[i].status = "active"
  /\ state.subscriberCount < maxSubs + 1
  /\ subs' = [subs EXCEPT ![i].rendered = state.value, ![i].pending = FALSE]
  /\ state' = [state EXCEPT !.subscriberCount = @ + 1]
  /\ ev' = NoEv
  /\ UNCHANGED <<callbacks, hasOnChange, heap, stack, onChangeCalls, incCalls, trace>>

\* bug: the effect only registers, without looking at changeCount
Activate_NoLateCheck(i) ==
  /\ InCallback
  /\ subs[i].status = "created"
  /\ callbacks' = [k \in DOMAIN callbacks \cup {subs[i].id} |->
                     IF k = subs[i].id THEN i ELSE callbacks[k]]
  /\ subs' = [subs EXCEPT ![i].status = "active", ![i].changeCount = 0,
                          ![i].missed = FALSE]
  /\ ev' = [op |-> "activate", sub |-> i, forced |-> 0]
  /\ stack' = MarkRegistryEdit(stack)
  /\ UNCHANGED <<state, hasOnChange, heap, onChangeCalls, incCalls, trace>>

\* bug: the effect runs again for a hook instance whose cleanup has run
Activate_Revives(i) ==
  /\ InCallback
  /\ subs[i].status \in {"created", "detached"}
  /\ LET id == subs[i].id
         late == state.changeCount > subs[i].changeCount
         s1 == [subs EXCEPT ![i].status = "active", ![i].changeCount = 0,
                            ![i].missed = FALSE]
     IN /\ callbacks' = [k \in DOMAIN callbacks \cup {id} |->
                           IF k = id THEN i ELSE callbacks[k]]
        /\ subs' = IF late THEN forceRender(s1, i) ELSE s1
        /\ ev' = [op |-> "activate", sub |-> i, forced |-> IF late THEN 1 ELSE 0]
  /\ stack' = MarkRegistryEdit(stack)
  /\ UNCHANGED <<state, hasOnChange, heap, onChangeCalls, incCalls, trace>>

\* the effect (lines 130-151): runs once, when the component is committed
Activate(i) ==
  /\ InCallback
  /\ subs[i].status = "created"
  /\ LET id == subs[i].id
         late == state.changeCount > subs[i].changeCount
         s1 == [subs EXCEPT ![i].status = "active", ![i].changeCount = 0,
                            ![i].missed = FALSE]
     IN /\ callbacks' = [k \in DOMAIN callbacks \cup {id} |->
                           IF k = id THEN i ELSE callbacks[k]]
        /\ subs' = IF late THEN forceRender(s1, i) ELSE s1
        /\ ev' = [op |-> "activate", sub |-> i, forced |-> IF late THEN 1 ELSE 0]
  /\ stack' = MarkRegistryEdit(stack)
  /\ UNCHANGED <<state, hasOnChange, heap, onChangeCalls, incCalls, trace>>

\* delete callbacks[id] (line 154): deleting a key that is absent does nothing
Cleanup(id) == [k \in DOMAIN callbacks \ {id} |-> callbacks[k]]

\* bug: the cleanup leaves the callback in the registry
Detach_Leak(i) ==
  /\ InCallback
  /\ subs[i].status = "active"
  /\ subs' = [subs EXCEPT ![i] = Gone(@, "detached")]
  /\ stack' = MarkRegistryEdit(stack)
  /\ ev' = NoEv
  /\ UNCHANGED <<state, callbacks, hasOnChange, heap, onChangeCalls, incCalls, trace>>

\* the effect's cleanup (lines 153-162): runs when the component is removed
Detach(i) ==
  /\ InCallback
  /\ subs[i].status = "active"
  /\ callbacks' = Cleanup(subs[i].id)
  /\ subs' = [subs EXCEPT ![i] = Gone(@, "detached")]
  /\ stack' = MarkRegistryEdit(stack)
  /\ ev' = NoEv
  /\ UNCHANGED <<state, hasOnChange, heap, onChangeCalls, incCalls, trace>>

\* the cleanup closure of a hook instance is called once more after it has run
DetachAgain(i) ==
  /\ InCallback
  /\ subs[i].status = "detached"
  /\ callbacks' = Cleanup(subs[i].id)
  /\ stack' = IF Cleanup(subs[i].id) = callbacks THEN stack ELSE MarkRegistryEdit(stack)
  /\ ev' = [op |-> "cleanup", sub |-> i]
  /\ UNCHANGED <<state, hasOnChange, heap, subs, onChangeCalls, incCalls, trace>>

\* a render the host framework throws away before committing it: no effect runs
Discard(i) ==
  /\ InCallback
  /\ subs[i].status = "created"
  /\ subs' = [subs EXCEPT ![i] = Gone(@, "discarded")]
  /\ ev' = NoEv
  /\ UNCHANGED <<state, callbacks, hasOnChange, heap, stack, onChangeCalls, incCalls, trace>>

\* the values a caller passes in Spec: two primitives
PlainValues == {Prim(0), Prim(1)}

\* subscribers and re-entrancy: a container of primitives, components mounting and
\* unmounting at any point, also inside the callbacks of a running setDatum
Init == UseDatum({Prim(0)}, BOOLEAN) /\ trace = Off

NextNoThrow ==
  \/ \E a \in PlainValues, force \in BOOLEAN : SetDatum(a, force, FALSE)
  \/ OnChangeReturn
  \/ NotifyNext
  \/ SetDatumReturn
  \/ Render(MaxSubs)
  \/ \E i \in DOMAIN subs : Rerender(i, MaxSubs)
  \/ \E i \in DOMAIN subs : Activate(i)
  \/ \E i \in DOMAIN subs : Detach(i)
  \/ \E i \in DOMAIN subs : DetachAgain(i)
  \/ \E i \in DOMAIN subs : Discard(i)

Next == NextNoThrow \/ Throw

Spec == Init /\ [][Next]_vars

\* the same, in runs where no callback throws
SpecNoThrow == Init /\ [][NextNoThrow]_vars

\* no setDatum call is running
Idle == stack = << >>

\* fan-out: more components, every setDatum called from outside any callback and
\* nothing mounting or unmounting while it runs
NextFanOut ==
  \/ \E a \in PlainValues, force \in BOOLEAN : Idle /\ SetDatum(a, force, FALSE)
  \/ Idle /\ Render(FanOutSubs)
  \/ \E i \in DOMAIN subs : Idle /\ Rerender(i, FanOutSubs)
  \/ \E i \in DOMAIN subs : Idle /\ Activate(i)
  \/ \E i \in DOMAIN subs : Idle /\ Detach(i)
  \/ \E i \in DOMAIN subs : Idle /\ Discard(i)
  \/ OnChangeReturn
  \/ NotifyNext
  \/ SetDatumReturn

SpecFanOut == Init /\ [][NextFanOut]_vars

\* the change-detection policy: every kind of value in both modes, composites
\* edited in place, the updater form, and reads from any context; setDatum is
\* called from outside any callback, components are committed and removed at
\* any point
InitPolicy == UseDatum(Values, BOOLEAN) /\ trace = Off

NextPolicy ==
  \/ GetDatum
  \/ \E a \in Values \cup Updaters, force \in BOOLEAN : Idle /\ SetDatum(a, force, TRUE)
  \/ \E r \in Refs : Idle /\ Mutate(r)
  \/ Idle /\ Render(PolicySubs)
  \/ \E i \in DOMAIN subs : Idle /\ Rerender(i, PolicySubs)
  \/ \E i \in DOMAIN subs : Activate(i)
  \/ \E i \in DOMAIN subs : Detach(i)
  \/ \E i \in DOMAIN subs : Idle /\ Discard(i)
  \/ OnChangeReturn
  \/ NotifyNext
  \/ SetDatumReturn
  \/ Throw

SpecPolicy == InitPolicy /\ [][NextPolicy]_vars

\* re-entrant calls on record: setDatum called from anywhere, also from inside
\* onChange and the notify-callbacks; components mount and unmount between calls
InitReentrant == UseDatum({Prim(0)}, BOOLEAN) /\ trace = << >>

NextReentrant ==
  \/ \E a \in PlainValues, force \in BOOLEAN : SetDatum(a, force, FALSE)
  \/ OnChangeReturn
  \/ NotifyNext
  \/ SetDatumReturn
  \/ Idle /\ Render(MaxSubs)
  \/ \E i \in DOMAIN subs : Idle /\ Rerender(i, MaxSubs)
  \/ \E i \in DOMAIN subs : Idle /\ Activate(i)
  \/ \E i \in DOMAIN subs : Idle /\ Detach(i)

SpecReentrant == InitReentrant /\ [][NextReentrant]_vars

\* no caller ever passes force = true
NextNoForce ==
  \/ \E a \in PlainValues : SetDatum(a, FALSE, FALSE)
  \/ OnChangeReturn
  \/ NotifyNext
  \/ SetDatumReturn
  \/ Render(MaxSubs)
  \/ \E i \in DOMAIN subs : Rerender(i, MaxSubs)
  \/ \E i \in DOMAIN subs : Activate(i)
  \/ \E i \in DOMAIN subs : Detach(i)
  \/ \E i \in DOMAIN subs : Discard(i)
  \/ Throw

SpecNoForce == Init /\ [][NextNoForce]_vars

\* a container whose onChange puts one fixed value back:
\* UseDatum(v, () => setDatum(Normal))
Normal == Prim(0)

\* the running onChange has made its setDatum call: the call was not a change and
\* has just returned, or it was one and is on record
OnChangeDone ==
  \/ ev.op = "set" /\ ~ev.changed
  \/ \E p \in 1..Len(trace) :
       trace[p].op = "change" /\ trace[p].depth = Len(stack) + 1

\* the body of that onChange
NormaliseCall ==
  /\ stack # << >>
  /\ Top.pc = "onChange"
  /\ ~OnChangeDone
  /\ SetDatum(Normal, FALSE, TRUE)

InitNormalise == UseDatum(PlainValues, BOOLEAN) /\ hasOnChange /\ trace = << >>

\* the steps of a running setDatum call
Running ==
  \/ NormaliseCall
  \/ OnChangeDone /\ OnChangeReturn
  \/ NotifyNext
  \/ SetDatumReturn

\* callers call setDatum between calls, with room under MaxChanges for the changes
\* one call can cause; components mount and unmount between calls
NextNormalise ==
  \/ \E a \in PlainValues, force \in BOOLEAN :
       Idle /\ state.changeCount + 2 <= MaxChanges /\ SetDatum(a, force, TRUE)
  \/ Running
  \/ Idle /\ Render(MaxSubs)
  \/ \E i \in DOMAIN subs : Idle /\ Rerender(i, MaxSubs)
  \/ \E i \in DOMAIN subs : Idle /\ Activate(i)
  \/ \E i \in DOMAIN subs : Idle /\ Detach(i)

\* setDatum and its callbacks are synchronous code: a call that can take a step
\* takes it
SpecNormalise == InitNormalise /\ [][NextNormalise]_vars /\ WF_vars(Running)

\* ======================================================================
\* Claims
\* ======================================================================

\* the step is a call setDatum(a, f)
SetCall(a, f) == ev'.op = "set" /\ ev'.arg = a /\ ev'.force = f

\* the step is a call getDatum()
GetCall == ev'.op = "get"

ObjectLike(v) == v.kind = "obj"

\* structural equality of two values, by content and not by reference
RECURSIVE StructurallyEqual(_, _)
StructurallyEqual(a, b) ==
  IF a.kind # b.kind THEN FALSE
  ELSE IF a.kind = "prim" THEN a.v = b.v
       ELSE /\ Len(heap[a.v]) = Len(heap[b.v])
            /\ \A i \in 1..Len(heap[a.v]) :
                 StructurallyEqual(heap[a.v][i], heap[b.v][i])

\* v equals the stored value under the container's mode
EqualUnderMode(v) ==
  IF state.shallow THEN v = state.value ELSE StructurallyEqual(v, state.value)

\* C1: a setDatum call with force = false and a value equal to the stored one
\* under the active mode changes nothing: no onChange, no notification, the
\* stored value and its reference, changeCount and the registry stay as they are.
C1_NoOpUpdate ==
  [][\A v \in Values :
       (SetCall(v, FALSE) /\ EqualUnderMode(v)) =>
         UNCHANGED <<state, callbacks, subs, stack, onChangeCalls, heap>>]_vars

\* the stored object was edited in place and then passed to setDatum again, in deep
\* mode, with an onChange and an active subscriber: nothing happened
C1_Witness ==
  /\ ev.op = "set" /\ ~ev.force /\ ~ev.changed
  /\ ev.arg = state.value /\ isObject(state.value)
  /\ state.changeCount = 0
  /\ heap[state.value.v] # <<Prim(0)>>
  /\ ~state.shallow /\ hasOnChange /\ ActiveSubs # {}
  /\ \A i \in ActiveSubs : ~subs[i].pending

\* the change-detection policy as the specification words it
PolicySaysChange(v, f) ==
  \/ f
  \/ (state.shallow \/ ~ObjectLike(v)) /\ v # state.value
  \/ ~state.shallow /\ ObjectLike(v) /\ ~StructurallyEqual(v, state.value)

\* C6: setDatum accepts a call as a change exactly when force is true, or the
\* value is compared by identity (shallow mode, or not object-like) and differs,
\* or it is compared structurally (deep mode, object-like) and differs.
C6_ChangePolicy ==
  [][\A v \in Values, f \in BOOLEAN :
       SetCall(v, f) =>
         IF PolicySaysChange(v, f)
         THEN /\ state'.changeCount = state.changeCount + 1
              /\ state'.value = v
              /\ Len(stack') = Len(stack) + 1
         ELSE UNCHANGED <<state, stack>>]_vars

\* deep mode: a composite equal in content to the stored one, under another
\* reference, was not taken as a change
C6_Witness ==
  /\ ev.op = "set" /\ ~ev.force /\ ~ev.changed
  /\ ~state.shallow
  /\ isObject(ev.arg) /\ isObject(state.value)
  /\ ev.arg # state.value

PlusOne(v) == [kind |-> "prim", v |-> v.v + 1]

\* C9: setDatum(f) does what setDatum(f(v)) does for the stored value v; from a
\* container created with 0, k calls setDatum(prior => prior + 1) leave the value k
\* and changeCount k.
C9_UpdaterForm ==
  /\ [](incCalls >= 0 => state.value = Prim(incCalls) /\ state.changeCount = incCalls)
  /\ [][\A f \in BOOLEAN :
          SetCall(Inc, f) => SetDatumEffect(PlusOne(state.value), f)]_vars

C9_Witness ==
  incCalls = 2 /\ state.value = Prim(2) /\ state.changeCount = 2

\* C10: getDatum changes nothing (value, changeCount, subscriber counter,
\* registry), triggers no onChange and no notification, and returns the stored
\* value: inside the callbacks of a change, the value that change set.
C10_GetterPure ==
  [][GetCall =>
       /\ UNCHANGED <<state, callbacks, subs, stack, onChangeCalls, heap>>
       /\ ev'.result = state.value
       /\ stack # << >> => ev'.result = Top.newValue]_vars

\* read from inside a notify-callback of a call that replaced the value
C10_Witness ==
  /\ ev.op = "get"
  /\ stack # << >> /\ Top.pc = "notify" /\ Top.notified # << >>
  /\ Top.prior # Top.newValue
  /\ ev.result = Top.newValue

\* ---- notification passes

\* how often key k occurs in seq
Count(seq, k) == Cardinality({j \in 1..Len(seq) : seq[j] = k})

\* the for-in of call f has nothing left to visit
AtEnd(f) == f.pc = "notify" /\ Remaining(f) = << >>

\* call f was forced with a value equal to (or identical with) the one it replaced
ForcedSame(f) ==
  f.force /\ (f.newValue = f.prior \/ StructurallyEqual(f.newValue, f.prior))

\* C2 as stated: a forced setDatum of an equal value notifies every subscription
\* that was active at the moment of the call exactly once.
C2_Original ==
  \A d \in DOMAIN stack :
    (ForcedSame(stack[d]) /\ AtEnd(stack[d])) =>
      \A i \in stack[d].activeAtCall : Count(stack[d].notified, subs[i].id) = 1

\* C2 (amended): a forced setDatum of an equal or identical value, in either mode,
\* increments changeCount by one and invokes onChange once (when there is one);
\* its pass invokes no notify-callback twice and, once it has nothing left to
\* visit, has invoked once that of every subscription that was active at the call
\* and is still active.
C2_ForcedUpdate ==
  /\ [][\A v \in Values :
          (SetCall(v, TRUE) /\ (v = state.value \/ StructurallyEqual(v, state.value))) =>
            /\ state'.changeCount = state.changeCount + 1
            /\ state'.value = v
            /\ onChangeCalls' = onChangeCalls + (IF hasOnChange THEN 1 ELSE 0)
            /\ Len(stack') = Len(stack) + 1
            /\ stack'[Len(stack')].force]_vars
  /\ [](\A d \in DOMAIN stack :
          ForcedSame(stack[d]) =>
            /\ \A k \in Range(stack[d].notified) : Count(stack[d].notified, k) = 1
            /\ AtEnd(stack[d]) =>
                 \A i \in stack[d].activeAtCall :
                   subs[i].status = "active" =>
                     Count(stack[d].notified, subs[i].id) = 1)

\* the stored object was edited in place and passed again with force: onChange
\* ran and the pass has notified the active subscriber
C2_Witness ==
  /\ stack # << >> /\ Top.force /\ AtEnd(Top)
  /\ isObject(Top.newValue) /\ Top.newValue = Top.prior
  /\ heap[Top.newValue.v] # <<Prim(0)>>
  /\ Top.seen.called
  /\ Top.activeAtCall # {}
  /\ \A i \in Top.activeAtCall : Count(Top.notified, subs[i].id) = 1 /\ subs[i].pending
  /\ state.changeCount = 1

\* C3: a hook instance that missed an accepted change between its first render and
\* its activation registers its callback on activation and requests one re-render
\* of its component.
C3_LateRegistration ==
  [][\A i \in DOMAIN subs :
       (subs[i].status = "created" /\ subs'[i].status = "active" /\ subs[i].missed) =>
         /\ subs[i].id \in DOMAIN callbacks'
         /\ callbacks'[subs[i].id] = i
         /\ subs'[i].pending
         /\ ev' = [op |-> "activate", sub |-> i, forced |-> 1]]_vars

\* rendered with the first value, the value was replaced, then the effect ran
C3_Witness ==
  /\ ev.op = "activate" /\ ev.forced = 1
  /\ subs[ev.sub].status = "active"
  /\ subs[ev.sub].id \in DOMAIN callbacks
  /\ subs[ev.sub].pending
  /\ subs[ev.sub].rendered # state.value

\* the step invokes the notify-callback stored under the identity of instance i
NotifiedInStep(i) ==
  /\ stack # << >>
  /\ Len(stack') = Len(stack)
  /\ Len(stack'[Len(stack)].notified) = Len(Top.notified) + 1
  /\ stack'[Len(stack)].notified[Len(Top.notified) + 1] = subs[i].id

\* C4: once the cleanup of a subscription has run, no setDatum pass invokes its
\* notify-callback, a pass already running included.
C4_DetachStopsNotification ==
  [][\A i \in DOMAIN subs : subs[i].status = "detached" => ~NotifiedInStep(i)]_vars

\* a pass that started with two callbacks, invoked one, during which the other
\* subscription detached: the pass ended without reaching it
C4_Witness ==
  /\ stack # << >> /\ AtEnd(Top)
  /\ Top.notified # << >>
  /\ \E i \in DOMAIN subs :
       /\ subs[i].status = "detached"
       /\ subs[i].id \in Range(Top.keys)
       /\ subs[i].id \notin Range(Top.notified)

\* C5: a pass during which the registry does not change invokes exactly one
\* notify-callback per active subscription, none twice, and none for a hook
\* instance that is rendered but not active.
C5_FanOut ==
  \A d \in DOMAIN stack :
    LET f == stack[d]
        active == {subs[i].id : i \in ActiveSubs}
    IN ~f.regChanged =>
         /\ \A k \in Range(f.notified) : Count(f.notified, k) = 1 /\ k \in active
         /\ AtEnd(f) => Range(f.notified) = active /\ Len(f.notified) = Cardinality(active)
         /\ \A i \in DOMAIN subs : subs[i].status = "created" => ~subs[i].pending

\* three active subscriptions, one accepted change, three invocations
C5_Witness ==
  /\ stack # << >> /\ AtEnd(Top) /\ ~Top.force
  /\ Top.newValue # Top.prior
  /\ Cardinality(ActiveSubs) = 3
  /\ Len(Top.notified) = 3
  /\ \A i \in ActiveSubs : subs[i].pending

\* C7: onChange runs once per accepted change, inside the call, with the new value
\* and the value stored before the call; when it runs the stored value is already
\* the new one, changeCount is already incremented and no notify-callback of this
\* change has run.
C7_OnChangeOrdering ==
  /\ [](onChangeCalls = IF hasOnChange THEN state.changeCount ELSE 0)
  /\ [](\A d \in DOMAIN stack : stack[d].pc = "onChange" => stack[d].notified = << >>)
  /\ [][(Len(stack') = Len(stack) + 1 /\ hasOnChange) =>
          LET f == stack'[Len(stack')]
          IN /\ f.pc = "onChange"
             /\ f.seen.called
             /\ f.seen.current = ev'.arg
             /\ f.seen.prior = state.value
             /\ f.seen.value = ev'.arg
             /\ f.seen.changeCount = state.changeCount + 1
             /\ f.notified = << >>
             /\ onChangeCalls' = onChangeCalls + 1]_vars

\* onChange is running for a change of value, with an active subscriber that has
\* not been notified yet
C7_Witness ==
  /\ stack # << >> /\ Top.pc = "onChange"
  /\ Top.seen.called
  /\ Top.seen.prior # Top.seen.current
  /\ Top.seen.value = state.value
  /\ ActiveSubs # {}
  /\ \A i \in ActiveSubs : ~subs[i].pending

\* nothing is running, every rendered component is committed, no re-render is due
Quiescent ==
  /\ stack = << >>
  /\ \A i \in DOMAIN subs : subs[i].status # "created" /\ ~subs[i].pending

\* C8: when no callback throws, in every quiescent state the value each active
\* subscription rendered last is the stored value.
C8_NoStaleSubscriber ==
  Quiescent => \A i \in ActiveSubs : subs[i].rendered = state.value

\* two components rendered the initial value, the value was replaced and both
\* have re-rendered
C8_Witness ==
  /\ Quiescent
  /\ Cardinality(ActiveSubs) = 2
  /\ state.changeCount > 0 /\ state.value # Prim(0)
  /\ state.subscriberCount > Len(subs)
  /\ \A i \in ActiveSubs : subs[i].rendered = state.value

\* ---- callbacks that throw

\* the step is a callback of the innermost running setDatum throwing
Thrown == ev'.op = "throw"

\* C11: when onChange or a notify-callback throws, the setDatum call that invoked
\* it ends there and control is back in its caller: if onChange threw, the call
\* has notified no subscriber; if a notify-callback threw, the subscribers the pass
\* had not reached are not notified by that call.
C11_FailFast ==
  /\ [][Thrown =>
          /\ stack # << >>
          /\ stack' = SubSeq(stack, 1, Len(stack) - 1)
          /\ Top.pc = "onChange" => Top.notified = << >>
          /\ subs' = subs
          /\ callbacks' = callbacks]_vars
  /\ [][\A i \in DOMAIN subs :
          NotifiedInStep(i) => ev'.op # "throw" /\ Top.pc = "notify"]_vars

\* a callback threw in the only call made so far: the call is over, the value is
\* replaced, and an active subscriber was left without a re-render request
C11_Witness ==
  /\ ev.op = "throw"
  /\ stack = << >>
  /\ state.changeCount = 1
  /\ \E i \in ActiveSubs :
       /\ ~subs[i].pending
       /\ subs[i].rendered # state.value

\* ---- the life of a subscription

\* the step is the cleanup of hook instance i called once more
CleanupAgain(i) == ev'.op = "cleanup" /\ ev'.sub = i /\ subs[i].status = "detached"

\* C12: calling the cleanup of a subscription that is already detached changes
\* nothing: the registry, with the entries of the subscriptions active at that
\* moment, the stored value and changeCount are as before.
C12_DoubleCleanup ==
  [][\A i \in DOMAIN subs :
       CleanupAgain(i) =>
         /\ callbacks' = callbacks
         /\ state' = state
         /\ subs' = subs
         /\ stack' = stack
         /\ \A j \in ActiveSubs : subs[j].id \in DOMAIN callbacks']_vars

\* the component of the first hook instance was removed, a second one mounted,
\* and the first cleanup was called again
C12_Witness ==
  /\ ev.op = "cleanup"
  /\ subs[ev.sub].status = "detached"
  /\ \E j \in ActiveSubs : j > ev.sub /\ callbacks[subs[j].id] = j

\* the moves of a hook instance: rendered, then committed or thrown away, then removed
LifecycleMoves ==
  {<<"created", "active">>, <<"created", "discarded">>, <<"active", "detached">>}

\* C13: a subscription moves created -> active -> detached and detached is final:
\* the identity of a detached subscription is never a key of the registry again,
\* and a hook instance rendered later gets an identity no earlier one had.
C13_Lifecycle ==
  /\ [][\A i \in DOMAIN subs :
          /\ subs'[i].status # subs[i].status =>
               <<subs[i].status, subs'[i].status>> \in LifecycleMoves
          /\ subs[i].status = "detached" =>
               /\ subs'[i].status = "detached"
               /\ subs[i].id \notin DOMAIN callbacks']_vars
  /\ [][Len(subs') > Len(subs) =>
          /\ subs'[Len(subs')].status = "created"
          /\ \A j \in DOMAIN subs : subs'[Len(subs')].id # subs[j].id]_vars
  /\ [](\A i \in DOMAIN subs : subs[i].status = "detached" => subs[i].id \notin DOMAIN callbacks)

\* a component was removed and another is mounted, under a later identity
C13_Witness ==
  /\ Len(subs) = 2
  /\ subs[1].status = "detached" /\ subs[2].status = "active"
  /\ ToIndex(subs[2].id) > ToIndex(subs[1].id)
  /\ DOMAIN callbacks = {subs[2].id}

\* C15: every key of the registry is the identity of a subscription that is active;
\* a subscription that is detached, or rendered and not active, has no entry.
C15_NoDanglingEntries ==
  /\ \A k \in DOMAIN callbacks :
       /\ callbacks[k] \in ActiveSubs
       /\ subs[callbacks[k]].id = k
  /\ \A i \in DOMAIN subs :
       subs[i].status # "active" => subs[i].id \notin DOMAIN callbacks

\* inside a running setDatum, after one component was removed and while another is
\* rendered and not yet committed
C15_Witness ==
  /\ stack # << >>
  /\ callbacks = EmptyMap
  /\ \E i, j \in DOMAIN subs : subs[i].status = "detached" /\ subs[j].status = "created"

\* hook instances that are rendered or committed
Live == {i \in DOMAIN subs : subs[i].status \in {"created", "active"}}

\* C16: no two subscriptions that are created or active hold the same identity;
\* an entry of the registry is never overwritten and is removed only by the
\* cleanup of its own subscription; the identity of a hook instance is the one of
\* its first render.
C16_IdentityUnique ==
  /\ [](\A i, j \in Live : i # j => subs[i].id # subs[j].id)
  /\ [](\A i \in ActiveSubs : subs[i].id \in DOMAIN callbacks /\ callbacks[subs[i].id] = i)
  /\ [][/\ \A i \in DOMAIN subs : subs'[i].id = subs[i].id
        /\ \A k \in DOMAIN callbacks :
             IF k \in DOMAIN callbacks'
             THEN callbacks'[k] = callbacks[k]
             ELSE /\ subs[callbacks[k]].status = "active"
                  /\ subs'[callbacks[k]].status = "detached"]_vars

\* two components mounted, the first has re-rendered and keeps the identity of its
\* first render
C16_Witness ==
  /\ Cardinality(ActiveSubs) = 2
  /\ subs[1].id = String(0) /\ subs[2].id = String(1)
  /\ state.subscriberCount = 3
  /\ subs[1].rendered # Prim(0)
  /\ callbacks[String(0)] = 1 /\ callbacks[String(1)] = 2

\* the step is the render body of useDatum, first render or re-render
RenderStep == state'.subscriberCount = state.subscriberCount + 1

\* C18: the render body of useDatum changes neither the registry nor the stored
\* value nor changeCount; a render that is thrown away has no entry in the
\* registry and is never notified.
C18_RegistrationAtActivation ==
  /\ [][RenderStep =>
          /\ callbacks' = callbacks
          /\ state'.value = state.value
          /\ state'.changeCount = state.changeCount
          /\ stack' = stack]_vars
  /\ [][\A i \in DOMAIN subs :
          subs[i].status \in {"created", "discarded"} => ~NotifiedInStep(i)]_vars
  /\ [](\A i \in DOMAIN subs :
          subs[i].status = "discarded" =>
            subs[i].id \notin DOMAIN callbacks /\ ~subs[i].pending)

\* a render was thrown away; a pass of a later change has notified the mounted
\* component only
C18_Witness ==
  /\ Len(subs) = 2
  /\ subs[1].status = "discarded" /\ subs[2].status = "active"
  /\ stack # << >> /\ AtEnd(Top)
  /\ Top.notified = <<subs[2].id>>
  /\ subs[2].pending

\* ---- the change counter

\* the step is a setDatum call that is accepted as a change
Accepted == ev'.op = "set" /\ ev'.changed

\* C14: changeCount starts at 0 and moves only by the +1 of a setDatum call that is
\* accepted as a change, nested calls included; the stored value is replaced in
\* those steps and in no other.
C14_ChangeCounter ==
  /\ state.changeCount = 0
  /\ [][/\ state'.changeCount = state.changeCount + (IF Accepted THEN 1 ELSE 0)
        /\ Accepted => state'.value = ev'.arg /\ Len(stack') = Len(stack) + 1
        /\ ~Accepted => state'.value = state.value /\ Len(stack') <= Len(stack)]_vars
  /\ [](state.changeCount >= Len(stack))

\* a call accepted inside a callback of another accepted call: two changes counted
C14_Witness ==
  /\ Len(stack) = 2
  /\ state.changeCount = 2
  /\ stack[1].newValue # stack[1].prior
  /\ stack[2].prior = stack[1].newValue
  /\ state.value = stack[2].newValue

\* ---- the registry edited under a running pass

\* the step is the innermost setDatum call returning after its for-in
Returns == stack # << >> /\ Len(stack') = Len(stack) - 1 /\ ev'.op # "throw"

\* C17: when subscriptions detach or activate inside the callbacks of a running
\* pass, every callback the pass invokes is a registered one, the pass invokes no
\* callback twice, and when it ends it has invoked once the callback of every
\* subscription that was registered when it started and is still active.
C17_RegistryEditTolerated ==
  /\ [][\A i \in DOMAIN subs :
          NotifiedInStep(i) =>
            /\ subs[i].status = "active"
            /\ subs[i].id \in DOMAIN callbacks
            /\ subs[i].id \notin Range(Top.notified)]_vars
  /\ [][Returns =>
          \A i \in ActiveSubs :
            subs[i].id \in Range(Top.keys) => Count(Top.notified, subs[i].id) = 1]_vars
  /\ [](\A d \in DOMAIN stack :
          \A k \in Range(stack[d].notified) : Count(stack[d].notified, k) = 1)

\* a pass that started with two callbacks: the first one invoked removed its own
\* component, the pass went on to the second and has nothing left to visit
C17_Witness ==
  /\ stack # << >> /\ AtEnd(Top) /\ Top.regChanged
  /\ Len(Top.keys) = 2 /\ Len(Top.notified) = 2
  /\ \E i, j \in DOMAIN subs :
       /\ subs[i].status = "detached" /\ subs[i].id = Top.notified[1]
       /\ subs[j].status = "active" /\ subs[j].id = Top.notified[2]

\* ---- setDatum called from inside its own callbacks

\* the accepted changes on record, oldest first
Changes == SelectSeq(trace, LAMBDA e : e.op = "change")

\* the notifications of hook instance i on record
Notifications(i) == SelectSeq(trace, LAMBDA e : e.op = "notify" /\ e.sub = i)

\* the last change accepted before the event at position p
LatestChange(p) ==
  trace[CHOOSE q \in 1..p :
          /\ trace[q].op = "change"
          /\ \A r \in (q + 1)..p : trace[r].op # "change"]

\* setDatum(v1) was accepted and, from one of its callbacks, setDatum(v2) was
\* accepted; nothing else was
NestedPair ==
  /\ Len(Changes) = 2
  /\ Changes[1].depth = 1
  /\ Changes[2].depth = 2

\* C19: when a callback of an accepted setDatum(v1) calls setDatum(v2) and v2 is
\* accepted, then at the return of the outer call the stored value is v2,
\* changeCount has grown by 2, onChange was called with (v1, v0) and then with
\* (v2, v1), and every active subscription was notified once by each of the two
\* passes, each time with getDatum() returning the value of the latest change.
C19_ReentrantSet ==
  [][(Len(stack) = 1 /\ stack' = << >> /\ NestedPair) =>
       LET c1 == Changes[1]
           c2 == Changes[2]
       IN /\ state.value = c2.frame.newValue
          /\ state.changeCount = c1.before + 2
          /\ c2.stored = c1.frame.newValue
          /\ onChangeCalls = IF hasOnChange THEN c1.before + 2 ELSE 0
          /\ hasOnChange =>
               /\ c1.frame.seen.current = c1.frame.newValue
               /\ c1.frame.seen.prior = c1.stored
               /\ c2.frame.seen.current = c2.frame.newValue
               /\ c2.frame.seen.prior = c1.frame.newValue
          /\ \A i \in ActiveSubs :
               /\ Len(Notifications(i)) = 2
               /\ {Notifications(i)[n].depth : n \in 1..2} = {1, 2}
          /\ \A p \in 1..Len(trace) :
               trace[p].op = "notify" =>
                 trace[p].value = LatestChange(p).frame.newValue]_vars

\* onChange of setDatum(1) called setDatum(0); both calls have returned and each
\* of two mounted components was notified twice
C19_Witness ==
  /\ stack = << >>
  /\ NestedPair
  /\ hasOnChange
  /\ trace[2].op = "change"
  /\ ~Changes[1].frame.force /\ ~Changes[2].frame.force
  /\ state.value = Prim(0) /\ state.changeCount = 2
  /\ Cardinality(ActiveSubs) = 2
  /\ \A i \in ActiveSubs : Len(Notifications(i)) = 2 /\ subs[i].pending

\* ---- the re-render requested at activation

\* C20 as stated: when no call uses force, a re-render requested by the
\* activation step finds a stored value that differs from the one the component
\* rendered last.
C20_ActivationRerender ==
  [][\A i \in DOMAIN subs :
       (subs[i].status = "created" /\ ev'.op = "activate" /\ ev'.sub = i /\ ev'.forced = 1) =>
         subs[i].rendered # state.value]_vars

\* ---- the state after a callback has thrown

\* C21: when a callback of an accepted setDatum(v) throws, nothing is put back: the
\* stored value is v and changeCount keeps its increment; a setDatum(v) with
\* force = false that follows changes nothing, so the subscribers the aborted pass
\* did not reach get a re-render request from neither call.
C21_NoRollback ==
  /\ [][\A v \in Values, f \in BOOLEAN :
          (SetCall(v, f) /\ ev'.changed) =>
            state'.value = v /\ state'.changeCount = state.changeCount + 1]_vars
  /\ [][stack # << >> => state' = state /\ state.value = Top.newValue]_vars
  /\ [][Thrown => state' = state /\ state'.value = Top.newValue /\ subs' = subs]_vars
  /\ [][(ev.op = "throw" /\ SetCall(state.value, FALSE)) =>
          /\ ~ev'.changed
          /\ UNCHANGED <<state, callbacks, subs, stack, onChangeCalls, heap>>]_vars

\* onChange threw in setDatum(v), then setDatum(v) was called again: one change is
\* counted, v is stored, and the mounted component still shows the value it
\* rendered, with no re-render requested
C21_Witness ==
  /\ ev.op = "set" /\ ~ev.force /\ ~ev.changed
  /\ ev.arg = state.value
  /\ stack = << >>
  /\ hasOnChange
  /\ state.changeCount = 1 /\ onChangeCalls = 1
  /\ \E i \in ActiveSubs : ~subs[i].pending /\ subs[i].rendered # state.value

\* ---- an onChange that sets the container it belongs to

\* C22: when onChange always calls setDatum(w, false) for one primitive w and no
\* callback throws, every setDatum call returns; it causes at most two accepted
\* changes, the call onChange makes while w is stored being no change; and an
\* accepted call returns with w stored.
C22_NormaliserTerminates ==
  /\ (stack # << >>) ~> (stack = << >>)
  /\ [](Len(Changes) <= 2)
  /\ []((stack # << >> /\ Top.pc = "onChange" /\ state.value = Normal /\ ~OnChangeDone)
          => ~Changed(Normal, FALSE))
  /\ []((Len(stack) = 2 /\ Top.pc = "onChange") => state.value = Normal)
  /\ [][(Len(stack) = 1 /\ stack' = << >>) => state'.value = Normal]_vars

\* setDatum(1) on a container whose onChange sets 0: two changes, both calls have
\* returned, 0 is stored and the mounted component was notified by both passes
C22_Witness ==
  /\ stack = << >>
  /\ Len(Changes) = 2
  /\ Changes[1].frame.newValue # Normal
  /\ Changes[2].frame.newValue = Normal
  /\ state.value = Normal /\ state.changeCount = 2 /\ onChangeCalls = 2
  /\ \E i \in ActiveSubs : Len(Notifications(i)) = 2

====
